---- MODULE Spec2Model ----
(***************************************************************************)
(* influx2aprs (cmd/influx2aprs/main.go): the poll -> transform -> dedupe  *)
(* -> transmit loop of main().  One cycle is one pass of the body of the   *)
(* LOOP statement; the steps of a cycle are the actions below.             *)
(*                                                                         *)
(* Instants are natural numbers, ZeroTime being Go's zero time.Time.       *)
(* Sample values are decimal numbers held in tenths (200 is 20.0); a value *)
(* also carries its dynamic Go type, because the code reads it with the    *)
(* type assertion .(float64).                                              *)
(***************************************************************************)
EXTENDS Integers, Sequences, FiniteSets, TLC

VARIABLES
    fDebug,        \* --debug
    fOnce,         \* --once
    fPrintConfig,  \* --print-config
    pc,            \* where main() is
    printed,       \* the parsed configuration was written to stdout
    startupErr,    \* what went wrong before the loop ("none": nothing)
    lastTime,      \* var lastTime time.Time
    wxData,        \* var wxData aprs.Wx of the running cycle
    rows,          \* result.Next() calls of the running cycle that returned a record
    cycles,        \* cycles started so far (= store queries issued)
    cyc,           \* what the running (or last) cycle did so far
    sent,          \* the Observations handed to SendIS, in order: timestamp and outcome
    wentBack,      \* some cycle's first record carried a non-zero instant older than lastTime
    stream,        \* the records the running cycle has read, in the specifications that trace them
    clock          \* the ticker and the time, in the specification that measures time

vars == <<fDebug, fOnce, fPrintConfig, pc, printed, startupErr, lastTime, wxData, rows,
          cycles, cyc, sent, wentBack, stream, clock>>

----------------------------------------------------------------------------
(* Bounds of the model *)

MaxCycles == 3     \* cycles the model runs
MaxRows == 2       \* records one result stream yields
MaxTime == 2       \* instants are 0..MaxTime
MaxLuxTenths == 2600  \* light_lux values are 0.0 .. 260.0, in steps of 0.1
Interval == 3      \* the configured interval, in units of time

ZeroTime == 0
Times == ZeroTime..MaxTime

\* The sentinel Wx.Zero() leaves in a numeric field: a number that no
\* conversion of a sample yields.
Unset == -999999

KnownFields == {"temperature_C", "humidity", "light_lux", "wind_dir_deg",
                "wind_max_m_s", "wind_avg_m_s"}
Fields == KnownFields \cup {"battery_ok"}

\* Sample values, in tenths, the store returns for a field.
Samples(f) ==
    CASE f = "temperature_C" -> {200}
      [] f = "humidity"      -> {553, 996}
      [] f = "light_lux"     -> {2520}
      [] f = "wind_dir_deg"  -> {1804}
      [] f = "wind_max_m_s"  -> {100}
      [] f = "wind_avg_m_s"  -> {50}
      [] OTHER               -> {10}

\* A record of the result stream: field name, value (with its Go type), instant.
Records ==
    UNION {
        {[field |-> f, float |-> TRUE, v10 |-> v, time |-> t] :
            v \in Samples(f), t \in Times}
        \cup
        {[field |-> f, float |-> FALSE, v10 |-> 0, time |-> t] : t \in Times}
        : f \in Fields }

----------------------------------------------------------------------------
(* Pure helpers *)

\* time.Time.IsZero
IsZero(t) == t = ZeroTime

\* int(math.Round(n/d)) for d > 0: nearest integer, halves away from zero.
Round(n, d) ==
    IF n >= 0 THEN (2 * n + d) \div (2 * d)
              ELSE -((2 * (-n) + d) \div (2 * d))

\* Go's integer division, truncating toward zero.
Quot(a, b) == IF a >= 0 THEN a \div b ELSE -((-a) \div b)

\* Mutant of TempF: the offset of 32 left out.
TempF_NoOffset(v10) == Round(18 * v10, 100)

TempF(v10) == Round(18 * v10 + 3200, 100)
Percent(v10) == Round(v10, 10)
\* Mutant of SolarRad: the quotient lux / 126 rounded, not truncated.
SolarRad_QuotientRounded(v10) == Round(v10, 1260)

SolarRad(v10) == Quot(Round(v10, 10), 126)
Degrees(v10) == Round(v10, 10)
Mph(v10) == Round(v10 * 223694, 1000000)

\* var wxData aprs.Wx; wxData.Zero()
ZeroWx ==
    [Timestamp |-> ZeroTime, Temp |-> Unset, Humidity |-> Unset,
     SolarRad |-> Unset, WindDir |-> Unset, WindGust |-> Unset,
     WindSpeed |-> Unset]

\* The switch on result.Record().Field().
Dispatch(wx, r) ==
    CASE r.field = "temperature_C" -> [wx EXCEPT !.Temp = TempF(r.v10)]
      [] r.field = "humidity"      -> [wx EXCEPT !.Humidity = Percent(r.v10)]
      [] r.field = "light_lux"     -> [wx EXCEPT !.SolarRad = SolarRad(r.v10)]
      [] r.field = "wind_dir_deg"  -> [wx EXCEPT !.WindDir = Degrees(r.v10)]
      [] r.field = "wind_max_m_s"  -> [wx EXCEPT !.WindGust = Mph(r.v10)]
      [] r.field = "wind_avg_m_s"  -> [wx EXCEPT !.WindSpeed = Mph(r.v10)]
      [] OTHER                     -> wx

\* result.Record().Value().(float64) panics when the value is not a float64;
\* the assertion is evaluated only in the six cases of the switch.
Panics(r) == r.field \in KnownFields /\ ~r.float

\* Mutant of TakesInstant: the instant of every record is taken and checked.
TakesInstant_Always(wx) == TRUE

\* if wxData.Timestamp.IsZero() { ... }: the record's instant is looked at
\* only while the Observation has no timestamp, that is for the first record.
TakesInstant(wx) == IsZero(wx.Timestamp)

\* Mutants of Stale: the comparison with lastTime dropped; || written as &&;
\* the test for the zero instant dropped.
Stale_ZeroOnly(ts, last) == IsZero(ts)
Stale_And(ts, last) == ts = last /\ IsZero(ts)
Stale_LastOnly(ts, last) == ts = last

\* wxData.Timestamp == lastTime || wxData.Timestamp.IsZero()
Stale(ts, last) == ts = last \/ IsZero(ts)

\* Mutants of Commit: the assignment to lastTime left out of the inner loop;
\* the assignment made for every record, not only the first.
Commit_Missing(isFirst, ts, last) == last
Commit_EveryRecord(isFirst, ts, last) == ts

\* lastTime = wxData.Timestamp, inside if wxData.Timestamp.IsZero() { ... }
Commit(isFirst, ts, last) == IF isFirst THEN ts ELSE last

\* Mutant of AfterQuery: the result is iterated whatever err is.
AfterQuery_IgnoreErr(err) == "next"

\* if err == nil { for result.Next() ... } else { log "Query error" }
AfterQuery(err) == IF err THEN "check" ELSE "next"

\* Mutant of Eligible: the Observation is sent whatever its timestamp.
Eligible_Always(wx) == TRUE

\* if !wxData.Timestamp.IsZero(): the Observation goes to the Transmitter.
Eligible(wx) == ~IsZero(wx.Timestamp)

StartupFailures == {"none", "config", "interval", "ticker"}

\* Mutants of AfterStartup: the loop written as for range ticker.C, so that
\* the first cycle waits for a tick; the error of time.ParseDuration is not
\* checked.
AfterStartup_WaitsForTick(failure) ==
    CASE failure = "none"   -> "wait"
      [] failure = "ticker" -> "panic"
      [] OTHER              -> "fatal"

AfterStartup_IntervalUnchecked(failure) ==
    CASE failure = "config" -> "fatal"
      [] failure = "ticker" -> "panic"
      [] OTHER              -> "query"

\* log.Fatal on a configuration or interval error, else into the loop.
AfterStartup(failure) ==
    CASE failure = "none"   -> "query"
      [] failure = "ticker" -> "panic"
      [] OTHER              -> "fatal"

\* Mutant of AfterStream: a stream error abandons the cycle.
AfterStream_AbandonOnErr(err) == IF err THEN "wait" ELSE "check"

\* if result.Err() != nil { log ... }: the error is logged, nothing else.
AfterStream(err) == "check"

\* Mutant of AfterSend: a failed send ends the process (log.Fatal for
\* log.Error).
AfterSend_FatalOnErr(ok, once) ==
    IF ok THEN (IF once THEN "exit0" ELSE "wait") ELSE "fatal"

\* Mutant of ExitsAfterSend: --once ignored.
ExitsAfterSend_Never(once) == FALSE

\* if fOnce { os.Exit(0) }, reached after a successful send only.
ExitsAfterSend(once) == once

\* After SendIS: continue on an error, os.Exit(0) under --once, else the end
\* of the loop body.
AfterSend(ok, once) ==
    IF ok /\ ExitsAfterSend(once) THEN "exit0" ELSE "wait"

None == -1   \* no instant, no value

\* What a cycle has done so far.
NewCycle(last) ==
    [first |-> None,        \* instant of the first record, None: no record yet
     lastAtStart |-> last,  \* lastTime when the cycle started
     sentAtStart |-> 0,     \* Observations handed to SendIS before the cycle
     queryErr |-> FALSE,    \* queryAPI.Query returned an error
     resultErr |-> FALSE,   \* result.Err() was non-nil after the stream
     skipped |-> FALSE,     \* continue LOOP was taken
     errors |-> 0,          \* log.Error calls
     applied |-> 0,         \* records that reached the switch
     commits |-> 0,         \* assignments to lastTime
     latest |-> [f \in Fields |-> None],
                            \* per field name: the float value read last
     handed |-> FALSE,      \* an Observation was handed to SendIS
     obs |-> ZeroWx,        \* the Observation handed to SendIS
     sendOk |-> FALSE,      \* SendIS returned nil
     afterFail |-> FALSE]   \* the cycle before this one ended in a failed send

NoCycle == NewCycle(ZeroTime)

\* time.NewTicker(interval): no tick is buffered in ticker.C, and no time has
\* passed since the ticker was made.
ClockAtStart ==
    [phase |-> 0,          \* time since the ticker was made or fired last
     buffered |-> FALSE,   \* ticker.C (a channel of capacity 1) holds a tick
     received |-> 0,       \* ticks the loop has received from ticker.C
     elapsed |-> 0,        \* time since the running cycle started (up to Horizon)
     gap |-> None,         \* time between the starts of the last two cycles
     late |-> FALSE]       \* some cycle started more than Interval after the one before

\* The values read last, after record r.
Latest(l, r) == IF r.float THEN [l EXCEPT ![r.field] = r.v10] ELSE l

----------------------------------------------------------------------------
(* The program *)

Init ==
    /\ fDebug \in BOOLEAN
    /\ fOnce \in BOOLEAN
    /\ fPrintConfig \in BOOLEAN
    /\ pc = "start"
    /\ printed = FALSE
    /\ startupErr = "none"
    /\ lastTime = ZeroTime
    /\ wxData = ZeroWx
    /\ rows = 0
    /\ cycles = 0
    /\ cyc = NoCycle
    /\ sent = <<>>
    /\ wentBack = FALSE
    /\ stream = <<>>
    /\ clock = ClockAtStart

\* main() up to the loop: read the configuration, print it under --debug,
\* parse the interval, create the ticker.  A configuration that cannot be
\* read ("config"), or an interval that is no duration ("interval"), ends the
\* process through log.Fatal; an interval that is a duration but not positive
\* ("ticker") makes time.NewTicker panic.
Startup ==
    /\ pc = "start"
    /\ \E failure \in StartupFailures :
        /\ startupErr' = failure
        /\ printed' = (fDebug /\ failure # "config")
        /\ pc' = AfterStartup(failure)
    /\ UNCHANGED <<fDebug, fOnce, fPrintConfig, lastTime, wxData, rows,
                   cycles, cyc, sent, wentBack, stream, clock>>

\* Mutant of QueryStep: wxData declared outside the loop, only its timestamp
\* cleared for a new cycle.
QueryStep_WxKept ==
    /\ pc = "query"
    /\ wxData' = [wxData EXCEPT !.Timestamp = ZeroTime]
    /\ rows' = 0
    /\ cycles' = cycles + 1
    /\ \E err \in BOOLEAN :
        /\ cyc' = [NewCycle(lastTime) EXCEPT
                      !.queryErr = err,
                      !.sentAtStart = Len(sent),
                      !.errors = IF err THEN 1 ELSE 0,
                      !.afterFail = cyc.handed /\ ~cyc.sendOk]
        /\ pc' = AfterQuery(err)
    /\ stream' = <<>>
    /\ UNCHANGED <<fDebug, fOnce, fPrintConfig, printed, startupErr, lastTime, sent, wentBack>>

\* Top of the loop body: a fresh wxData, then queryAPI.Query.
QueryStep ==
    /\ pc = "query"
    /\ wxData' = ZeroWx
    /\ rows' = 0
    /\ cycles' = cycles + 1
    /\ \E err \in BOOLEAN :
        /\ cyc' = [NewCycle(lastTime) EXCEPT
                      !.queryErr = err,
                      !.sentAtStart = Len(sent),
                      !.errors = IF err THEN 1 ELSE 0,
                      !.afterFail = cyc.handed /\ ~cyc.sendOk]
        /\ pc' = AfterQuery(err)
    /\ stream' = <<>>
    /\ UNCHANGED <<fDebug, fOnce, fPrintConfig, printed, startupErr, lastTime, sent, wentBack>>

Query == QueryStep /\ UNCHANGED clock

\* One pass of the body of the inner loop, for the record r that
\* result.Next() made current.
Consume(r) ==
    /\ pc = "next"
    /\  LET isFirst == TakesInstant(wxData)
            stale == isFirst /\ Stale(r.time, lastTime)
            wx1 == IF isFirst THEN [wxData EXCEPT !.Timestamp = r.time] ELSE wxData
        IN  /\ rows' = rows + 1
            /\ wentBack' = (wentBack \/ (isFirst /\ ~IsZero(r.time) /\ r.time < lastTime))
            /\ IF stale
               THEN \* continue LOOP
                    /\ wxData' = wx1
                    /\ pc' = "wait"
                    /\ cyc' = [cyc EXCEPT !.first = r.time, !.skipped = TRUE,
                                          !.latest = Latest(@, r)]
                    /\ UNCHANGED lastTime
               ELSE /\ lastTime' = Commit(isFirst, r.time, lastTime)
                    /\ cyc' = [cyc EXCEPT
                                  !.first = IF isFirst THEN r.time ELSE @,
                                  !.commits = IF isFirst THEN @ + 1 ELSE @,
                                  !.latest = Latest(@, r),
                                  !.applied = @ + 1]
                    /\ IF Panics(r)
                       THEN wxData' = wx1 /\ pc' = "panic"
                       ELSE wxData' = Dispatch(wx1, r) /\ pc' = "next"
    /\ UNCHANGED <<fDebug, fOnce, fPrintConfig, printed, startupErr, cycles, sent>>

\* result.Next() returned a record.
NextRecord ==
    /\ rows < MaxRows
    /\ \E r \in Records : Consume(r)
    /\ UNCHANGED <<stream, clock>>

\* result.Next() returned false: the stream ended, with or without an error
\* (result.Err() is only logged).
EndOfResult ==
    /\ pc = "next"
    /\ \E err \in BOOLEAN :
        /\ cyc' = [cyc EXCEPT !.resultErr = err,
                              !.errors = IF err THEN @ + 1 ELSE @]
        /\ pc' = AfterStream(err)
    /\ UNCHANGED <<fDebug, fOnce, fPrintConfig, printed, startupErr, lastTime, wxData,
                   rows, cycles, sent, wentBack, stream, clock>>

\* if !wxData.Timestamp.IsZero() { ... SendIS ... } else { "empty wxData" }
Transmit ==
    /\ pc = "check"
    /\ IF Eligible(wxData)
       THEN \E ok \in BOOLEAN :
                /\ sent' = Append(sent, [ts |-> wxData.Timestamp, ok |-> ok])
                /\ cyc' = [cyc EXCEPT !.handed = TRUE, !.sendOk = ok,
                                      !.obs = wxData,
                                      !.errors = IF ok THEN @ ELSE @ + 1]
                /\ pc' = AfterSend(ok, fOnce)
       ELSE /\ pc' = "wait"
            /\ UNCHANGED <<sent, cyc>>
    /\ UNCHANGED <<fDebug, fOnce, fPrintConfig, printed, startupErr, lastTime, wxData,
                   rows, cycles, wentBack, stream, clock>>

\* <-ticker.C: the post statement of the loop.
TickStep ==
    /\ pc = "wait"
    /\ cycles < MaxCycles
    /\ pc' = "query"
    /\ UNCHANGED <<fDebug, fOnce, fPrintConfig, printed, startupErr, lastTime, wxData,
                   rows, cycles, cyc, sent, wentBack, stream>>

Tick == TickStep /\ UNCHANGED clock

Next == Startup \/ Query \/ NextRecord \/ EndOfResult \/ Transmit \/ Tick

Spec == Init /\ [][Next]_vars

----------------------------------------------------------------------------
(* The program against a store that answers every query with the stream    *)
(* [(temperature_C, 20.0, t), (humidity, 55.3, t), (wind_avg_m_s, 5.0, t)], *)
(* t being any instant, the same for the three records.                    *)

ScenarioStream(t) ==
    << [field |-> "temperature_C", float |-> TRUE, v10 |-> 200, time |-> t],
       [field |-> "humidity",      float |-> TRUE, v10 |-> 553, time |-> t],
       [field |-> "wind_avg_m_s",  float |-> TRUE, v10 |-> 50,  time |-> t] >>

\* result.Next() returned the next record of the stream.
ScenarioRecord ==
    /\ rows < Len(ScenarioStream(ZeroTime))
    /\ \E t \in Times :
        /\ stream # <<>> => t = stream[1].time
        /\ Consume(ScenarioStream(t)[rows + 1])
        /\ stream' = Append(stream, ScenarioStream(t)[rows + 1])
    /\ UNCHANGED clock

\* result.Next() returned false after the last record of the stream.
ScenarioEnd ==
    /\ rows = Len(ScenarioStream(ZeroTime))
    /\ EndOfResult

NextScenario ==
    Startup \/ Query \/ ScenarioRecord \/ ScenarioEnd \/ Transmit \/ Tick

SpecScenario == Init /\ [][NextScenario]_vars

----------------------------------------------------------------------------
(* The program against a store of humidity records (two values, any         *)
(* instant), the records a cycle has read being kept in stream.             *)

TracedRecords ==
    {[field |-> "humidity", float |-> TRUE, v10 |-> v, time |-> t] :
        v \in Samples("humidity"), t \in Times}

\* result.Next() returned a record.
TracedRecord ==
    /\ rows < MaxRows
    /\ \E r \in TracedRecords : Consume(r) /\ stream' = Append(stream, r)
    /\ UNCHANGED clock

NextTraced ==
    Startup \/ Query \/ TracedRecord \/ EndOfResult \/ Transmit \/ Tick

SpecTraced == Init /\ [][NextTraced]_vars

----------------------------------------------------------------------------
(* The first cycle of the program against a store that answers the query   *)
(* with one light_lux record, of any value from 0.0 to MaxLuxTenths / 10.   *)

LuxRecords ==
    {[field |-> "light_lux", float |-> TRUE, v10 |-> v, time |-> t] :
        v \in 0..MaxLuxTenths, t \in Times}

\* result.Next() returned the record.
LuxRecord ==
    /\ rows = 0
    /\ \E r \in LuxRecords : Consume(r) /\ stream' = <<r>>
    /\ UNCHANGED clock

\* result.Next() returned false after the record.
LuxEnd ==
    /\ rows = 1
    /\ EndOfResult

NextLux == Startup \/ Query \/ LuxRecord \/ LuxEnd \/ Transmit

SpecLux == Init /\ [][NextLux]_vars

----------------------------------------------------------------------------
(* The program with time: the ticker fires every Interval units of time     *)
(* into ticker.C, a channel of capacity 1 (a tick that finds the channel    *)
(* full is dropped); the query, the reading of the stream and the send are  *)
(* network calls that take any amount of time; everything else takes none.  *)
(* The store answers with records of one field.                             *)

Horizon == Interval + 1   \* elapsed time is measured up to Horizon

TimedRecords ==
    {[field |-> "humidity", float |-> TRUE, v10 |-> 553, time |-> t] : t \in Times}

\* result.Next() returned a record.
TimedRecord ==
    /\ rows < MaxRows
    /\ \E r \in TimedRecords : Consume(r)
    /\ UNCHANGED <<stream, clock>>

\* <-ticker.C with a tick in the channel: the next cycle starts.
TimedTick ==
    /\ clock.buffered
    /\ TickStep
    /\ clock' = [clock EXCEPT !.buffered = FALSE,
                              !.received = @ + 1,
                              !.elapsed = 0,
                              !.gap = clock.elapsed,
                              !.late = @ \/ clock.elapsed > Interval]

\* One unit of time passes, during a network call or while the loop is
\* blocked on the empty ticker.C; the ticker fires when its period is over.
Elapse ==
    /\ \/ pc \in {"query", "next", "check"}
       \/ pc = "wait" /\ ~clock.buffered
    /\ clock' = [clock EXCEPT
                    !.phase = (@ + 1) % Interval,
                    !.buffered = @ \/ (clock.phase + 1) % Interval = 0,
                    !.elapsed = IF @ < Horizon THEN @ + 1 ELSE @]
    /\ UNCHANGED <<fDebug, fOnce, fPrintConfig, pc, printed, startupErr, lastTime,
                   wxData, rows, cycles, cyc, sent, wentBack, stream>>

NextTimed ==
    Startup \/ Query \/ TimedRecord \/ EndOfResult \/ Transmit \/ TimedTick \/ Elapse

SpecTimed == Init /\ [][NextTimed]_vars

----------------------------------------------------------------------------
(* The program, against the store of records of one field, when every      *)
(* network call returns and the ticker keeps firing: a step that can be    *)
(* taken is taken.                                                         *)

NextFair ==
    Startup \/ Query \/ TimedRecord \/ EndOfResult \/ Transmit \/ Tick

SpecFair == Init /\ [][NextFair]_vars /\ WF_vars(NextFair)

----------------------------------------------------------------------------
(* Properties *)

Exited == pc \in {"exit0", "fatal", "panic"}

\* The process is inside the loop or blocked on the ticker.
InLoop == pc \in {"query", "next", "check", "wait"}

\* A cycle has been abandoned or completed and the loop is at, or past, the
\* wait for the next tick.
AtTick == pc \in {"wait", "query"}

NumericUnset(wx) ==
    /\ wx.Temp = Unset /\ wx.Humidity = Unset /\ wx.SolarRad = Unset
    /\ wx.WindDir = Unset /\ wx.WindGust = Unset /\ wx.WindSpeed = Unset

\* C1 (as stated): no two transmissions carry the same Observation
\* timestamp, whatever instants the store returns.  Stated of the sends that
\* succeeded, which is the weakest reading of "transmitted".
C1_EachTimestampSentOnce ==
    \A i, j \in DOMAIN sent :
        (i < j /\ sent[i].ok /\ sent[j].ok) => sent[i].ts # sent[j].ts

\* C1 (amended): as long as no cycle's first record carried a non-zero
\* instant older than the lastTime committed before it, no two Observations
\* handed to the Transmitter (sent successfully or not) carry the same
\* timestamp.
C1_SentOnceWhileTimeAdvances ==
    ~wentBack =>
        \A i, j \in DOMAIN sent : i < j => sent[i].ts # sent[j].ts

\* Two transmissions, then the store repeats the last instant and the cycle
\* is suppressed; the store never went back in time.
C1_Witness ==
    /\ ~wentBack
    /\ Len(sent) = 2
    /\ cyc.skipped
    /\ cyc.first = sent[2].ts

\* C2: a cycle whose first record has a non-zero instant equal to lastTime
\* hands nothing to the Transmitter, leaves lastTime unchanged, applies none
\* of its records to a numeric field of the Observation (no record reaches
\* the switch, and no record after the first is read), and goes on to the
\* wait for the next tick.
C2_RepeatedInstantSuppressed ==
    (cyc.first = cyc.lastAtStart /\ ~IsZero(cyc.first)) =>
        /\ ~cyc.handed
        /\ lastTime = cyc.lastAtStart
        /\ cyc.applied = 0
        /\ rows = 1
        /\ NumericUnset(wxData)
        /\ AtTick

C2_Witness ==
    /\ cyc.first = cyc.lastAtStart
    /\ ~IsZero(cyc.first)
    /\ pc = "wait"
    /\ Len(sent) = 1

\* C3: the commit of lastTime precedes the transmission attempt and is not
\* rolled back when the send fails; in the cycle after a failed send of t,
\* a first record that carries t again suppresses the cycle, so what that
\* cycle hands to the Transmitter, if anything, is not t.
C3_CommitSurvivesFailedSend ==
    /\ (pc = "check" /\ Eligible(wxData)) => lastTime = wxData.Timestamp
    /\ (cyc.handed /\ AtTick) =>
            (lastTime = sent[Len(sent)].ts /\ lastTime = wxData.Timestamp)
    /\ (cyc.afterFail /\ ~cyc.handed) =>
            /\ ~sent[Len(sent)].ok
            /\ (cyc.first = sent[Len(sent)].ts =>
                    cyc.skipped /\ lastTime = cyc.first /\ cyc.applied = 0)
    /\ (cyc.afterFail /\ cyc.handed) =>
            /\ ~sent[Len(sent) - 1].ok
            /\ sent[Len(sent)].ts # sent[Len(sent) - 1].ts

\* The send of t failed, and the next cycle, whose first record carries t
\* again, has been suppressed.
C3_Witness ==
    /\ cyc.afterFail
    /\ cyc.skipped
    /\ Len(sent) = 1
    /\ cyc.first = sent[1].ts
    /\ pc = "wait"

\* C4: when the query of a cycle returns an error, no record of a result is
\* read or applied, no Observation is handed to the Transmitter, lastTime is
\* unchanged and the process stays in the loop.
C4_QueryErrorAbandonsCycle ==
    cyc.queryErr =>
        /\ rows = 0
        /\ cyc.applied = 0
        /\ cyc.first = None
        /\ wxData = ZeroWx
        /\ ~cyc.handed
        /\ lastTime = cyc.lastAtStart
        /\ pc \in {"check", "wait", "query"}

\* A query error in a cycle that follows a transmission: the cycle is over
\* and the loop waits for the tick, lastTime still holding the sent instant.
C4_Witness ==
    /\ cyc.queryErr
    /\ pc = "wait"
    /\ Len(sent) = 1
    /\ lastTime = sent[1].ts

C6_OnceRunsOneCycle ==
    fOnce => cycles <= 1

\* C7: with --print-config set, no cycle runs: no store query is issued and
\* nothing is handed to the Transmitter.
C7_PrintConfigRunsNoCycle ==
    fPrintConfig => (cycles = 0 /\ sent = <<>>)

\* The stream of the running (or last) cycle ended without a record and
\* without a stream error, after a query that succeeded.
EmptyStream ==
    /\ cycles > 0
    /\ pc \in {"check", "wait", "query"}
    /\ ~cyc.queryErr
    /\ ~cyc.resultErr
    /\ rows = 0

\* C8: a cycle whose result stream is empty hands no Observation to the
\* Transmitter, leaves lastTime unchanged, logs no error, and the process
\* stays in the loop (the next step is the wait for the tick).
C8_EmptyStreamSuppressed ==
    EmptyStream =>
        /\ ~cyc.handed
        /\ lastTime = cyc.lastAtStart
        /\ cyc.errors = 0
        /\ wxData = ZeroWx
        /\ ~Exited

\* An empty stream in the cycle after a transmission; the loop is waiting.
C8_Witness ==
    /\ EmptyStream
    /\ pc = "wait"
    /\ Len(sent) = 1
    /\ lastTime = sent[1].ts

\* C9: every Observation handed to the Transmitter has a non-zero timestamp
\* that differs from the timestamp of the Observation handed just before it.
C9_HandedTimestampFresh ==
    \A i \in DOMAIN sent :
        /\ ~IsZero(sent[i].ts)
        /\ (i > 1 => sent[i].ts # sent[i - 1].ts)

\* Three Observations handed over in three cycles, the third carrying the
\* timestamp of the first again (it differs from the second's).
C9_Witness ==
    /\ Len(sent) = 3
    /\ sent[3].ts = sent[1].ts

\* C10: in looping mode the process never exits once the loop has started.
C10_LoopingNeverExits ==
    (~fOnce /\ cycles > 0) => ~Exited

\* The cycle is over: the loop is at the ticker, or the process has exited
\* after the send.
CycleOver == pc \in {"wait", "query", "exit0"}

\* C11: for the stream [(temperature_C, 20.0, t1), (humidity, 55.3, t1),
\* (wind_avg_m_s, 5.0, t1)] with t1 non-zero and different from lastTime,
\* the cycle commits lastTime = t1 and hands to the Transmitter an
\* Observation with timestamp t1, Temp 68, Humidity 55, WindSpeed 11 and
\* SolarRad, WindDir and WindGust unset.
C11_ScenarioObservation ==
    (/\ CycleOver
     /\ stream = ScenarioStream(cyc.first)
     /\ ~IsZero(cyc.first)
     /\ cyc.first # cyc.lastAtStart) =>
        /\ lastTime = cyc.first
        /\ cyc.handed
        /\ cyc.obs = [Timestamp |-> cyc.first, Temp |-> 68, Humidity |-> 55,
                      WindSpeed |-> 11, SolarRad |-> Unset, WindDir |-> Unset,
                      WindGust |-> Unset]

\* The scenario in a cycle that starts with a non-zero lastTime.
C11_Witness ==
    /\ pc = "wait"
    /\ stream = ScenarioStream(cyc.first)
    /\ ~IsZero(cyc.first)
    /\ ~IsZero(cyc.lastAtStart)
    /\ cyc.first # cyc.lastAtStart
    /\ cyc.handed

\* The status the process has exited with (None while it runs): os.Exit(0),
\* log.Fatal, a Go panic.
ExitStatus ==
    CASE pc = "exit0" -> 0
      [] pc = "fatal" -> 1
      [] pc = "panic" -> 2
      [] OTHER        -> None

\* C12: when the configuration cannot be read or the interval is no valid
\* duration, the process has terminated with a nonzero status before the
\* loop: no cycle has run, no query was issued, nothing was transmitted.
C12_StartupErrorIsFatal ==
    startupErr \in {"config", "interval"} =>
        /\ pc = "fatal"
        /\ ExitStatus > 0
        /\ cycles = 0
        /\ cyc = NoCycle
        /\ sent = <<>>
        /\ lastTime = ZeroTime

\* The interval did not parse, after the configuration was printed under
\* --debug.
C12_Witness ==
    /\ startupErr = "interval"
    /\ printed
    /\ pc = "fatal"

\* C13: lastTime is the zero instant until the first write, is written at
\* most once per cycle, every write sets it to the non-zero instant of the
\* cycle's first record, which differs from the value it held before, it is
\* never reset to zero, and a cycle that is suppressed or whose query failed
\* does not write it.
C13_LastTimeWrites ==
    /\ cycles = 0 => lastTime = ZeroTime
    /\ cyc.commits <= 1
    /\ cyc.commits = 1 =>
            /\ lastTime = cyc.first
            /\ ~IsZero(lastTime)
            /\ lastTime # cyc.lastAtStart
    /\ cyc.commits = 0 => lastTime = cyc.lastAtStart
    /\ (cyc.skipped \/ cyc.queryErr) => cyc.commits = 0
    /\ ~IsZero(cyc.lastAtStart) => ~IsZero(lastTime)

\* A write that replaces a non-zero lastTime, in a cycle that went on to
\* read a second record.
C13_Witness ==
    /\ cyc.commits = 1
    /\ ~IsZero(cyc.lastAtStart)
    /\ rows = 2
    /\ pc = "wait"

\* C14: a cycle whose first record has the zero instant is abandoned at
\* once: nothing is handed to the Transmitter, lastTime is not written, and
\* no further record of the stream is read or applied, whatever instants
\* the rest of the stream would carry.
C14_ZeroFirstInstantAbandons ==
    cyc.first = ZeroTime =>
        /\ cyc.skipped
        /\ ~cyc.handed
        /\ cyc.commits = 0
        /\ lastTime = cyc.lastAtStart
        /\ cyc.applied = 0
        /\ rows = 1
        /\ NumericUnset(wxData)
        /\ AtTick

\* A zero first instant in a cycle that started with a non-zero lastTime.
C14_Witness ==
    /\ cyc.first = ZeroTime
    /\ ~IsZero(lastTime)
    /\ pc = "wait"

\* The numeric field of an Observation that the switch fills for field name f.
FieldValue(wx, f) ==
    CASE f = "temperature_C" -> wx.Temp
      [] f = "humidity"      -> wx.Humidity
      [] f = "light_lux"     -> wx.SolarRad
      [] f = "wind_dir_deg"  -> wx.WindDir
      [] f = "wind_max_m_s"  -> wx.WindGust
      [] f = "wind_avg_m_s"  -> wx.WindSpeed

\* C15: a numeric field of the Observation handed to the Transmitter is set
\* if and only if the stream of the same cycle held a record with that
\* field's name; the other fields hold the unset sentinel, whatever earlier
\* cycles read, and records with another field name set nothing.
C15_FieldSetIffInStream ==
    cyc.handed =>
        \A f \in KnownFields :
            (FieldValue(cyc.obs, f) # Unset) <=> (cyc.latest[f] # None)

\* The second Observation handed over: its stream held a wind direction and
\* a record with a field name the switch does not know.
C15_Witness ==
    /\ cyc.handed
    /\ Len(sent) = 2
    /\ cyc.latest["battery_ok"] # None
    /\ cyc.latest["wind_dir_deg"] # None
    /\ cyc.obs.Temp = Unset

\* C16: for a non-negative light_lux value, the solar radiation of the
\* Observation is q, where n is the lux value rounded to the nearest integer
\* (halves up) and q the truncated quotient n / 126: 126 q <= n < 126 (q + 1).
\* lux 252 gives 2, lux 0 gives 0, rounded values 1..125 give 0 and 126..251
\* give 1.
C16_SolarRadTruncates ==
    cyc.handed =>
        LET lux10 == stream[1].v10
            q == cyc.obs.SolarRad
        IN  /\ \E n \in 0..(MaxLuxTenths \div 10 + 1) :
                /\ 10 * n - 5 <= lux10 /\ lux10 < 10 * n + 5
                /\ 126 * q <= n /\ n < 126 * (q + 1)
            /\ lux10 = 2520 => q = 2
            /\ lux10 = 0 => q = 0
            /\ (5 <= lux10 /\ lux10 < 1255) => q = 0
            /\ (1255 <= lux10 /\ lux10 < 2515) => q = 1

\* lux 125.5, which rounds to 126, handed over with solar radiation 1.
C16_Witness ==
    /\ cyc.handed
    /\ stream[1].v10 = 1255
    /\ cyc.obs.SolarRad = 1

\* Cycles that have started: at "query" the query of a new cycle is under way.
StartedCycles == IF pc = "query" THEN cycles + 1 ELSE cycles

\* Every cycle but the first started on a tick, the first without one.
StartsOnTicks == StartedCycles >= 1 => clock.received = StartedCycles - 1

\* C17 (as stated): the first cycle starts without waiting for a tick, every
\* later cycle starts on a tick, and the starts of consecutive cycles are
\* exactly one interval apart, however long the query and the send took.
C17_StartsOneIntervalApart ==
    /\ StartsOnTicks
    /\ clock.gap # None => clock.gap = Interval

\* C17 (amended): the first cycle starts without waiting for a tick, every
\* later cycle starts on a tick, and, as long as no cycle's query and send
\* took more than one interval, the starts of consecutive cycles are
\* exactly one interval apart, whatever the outcome of the cycle.
C17_OneIntervalApartUnlessLate ==
    /\ StartsOnTicks
    /\ (~clock.late /\ clock.gap # None) => clock.gap = Interval

\* Two ticks received, each one interval after the previous start, the
\* second after a cycle whose send failed and whose work took time.
C17_Witness ==
    /\ ~clock.late
    /\ clock.received = 2
    /\ clock.gap = Interval
    /\ pc = "next"
    /\ cyc.afterFail
    /\ clock.elapsed = 1

\* The running (or last) cycle met a recoverable failure: its query or its
\* send returned an error.
CycleFailed == cyc.queryErr \/ (cyc.handed /\ ~cyc.sendOk)

C19_StreamErrorStillSends ==
    (/\ CycleOver
     /\ cyc.resultErr
     /\ cyc.first # None
     /\ ~IsZero(cyc.first)
     /\ cyc.first # cyc.lastAtStart) =>
        /\ lastTime = cyc.first
        /\ cyc.handed
        /\ sent[Len(sent)].ts = cyc.first
        /\ cyc.obs = wxData
        /\ cyc.obs.Timestamp = cyc.first
        /\ cyc.errors >= 1

\* A stream error after one humidity record, in the cycle that hands over
\* the second Observation.
C19_Witness ==
    /\ pc = "wait"
    /\ cyc.resultErr
    /\ rows = 1
    /\ cyc.handed
    /\ cyc.obs.Humidity # Unset
    /\ Len(sent) = 2

\* The humidity of the Observation after the stream read so far: 55.3 gives
\* 55 and 99.6 gives 100, the last record deciding.
LastHumidity == IF stream[Len(stream)].v10 = 553 THEN 55 ELSE 100

\* C20: only the first record of a stream is compared with lastTime.  When
\* its instant is non-zero and new, every record read after it reaches the
\* switch whatever instant it carries, a later record of the same field name
\* overwrites the value of an earlier one, and the timestamp of the
\* Observation (as handed to the Transmitter) and lastTime are the instant
\* of the first record.
C20_OnlyFirstInstantCounts ==
    (/\ stream # <<>>
     /\ stream[1].time # ZeroTime
     /\ stream[1].time # cyc.lastAtStart) =>
        /\ ~cyc.skipped
        /\ cyc.applied = Len(stream)
        /\ wxData.Timestamp = stream[1].time
        /\ lastTime = stream[1].time
        /\ wxData.Humidity = LastHumidity
        /\ cyc.handed =>
                /\ cyc.obs.Timestamp = stream[1].time
                /\ cyc.obs.Humidity = LastHumidity
                /\ sent[Len(sent)].ts = stream[1].time

\* An Observation handed over after two records: the second carries the
\* instant lastTime held before the cycle and overwrites the humidity 55 of
\* the first with 100.
C20_Witness ==
    /\ cyc.handed
    /\ Len(stream) = 2
    /\ ~IsZero(cyc.lastAtStart)
    /\ stream[2].time = cyc.lastAtStart
    /\ stream[1].v10 = 553
    /\ stream[2].v10 = 996
    /\ cyc.obs.Humidity = 100

\* The same with a second record that carries the zero instant.
C20_WitnessZero ==
    /\ cyc.handed
    /\ Len(stream) = 2
    /\ IsZero(stream[2].time)

====
